---- MODULE Spec2Model ----
(***************************************************************************)
(* aioc-util.py: the register access protocol of the AIOC configuration    *)
(* utility (feature-report frames, flag enumerations, packed registers)    *)
(* and the order in which main() issues transport calls.                   *)
(*                                                                         *)
(* Python integers are unbounded, and registers are 32 bits wide, so an    *)
(* integer is modelled as the finite set of the positions of its 1 bits    *)
(* (0x1002 is {1, 12}): |, &, << and >> are set operations and + is a      *)
(* carry adder.  A byte of a frame is a number 0..255.                     *)
(***************************************************************************)
EXTENDS Integers, Sequences, FiniteSets, TLC

VARIABLES status, pc, err, nopts, mark, inp, log, devReg, devAddr,
          ptt_source, call, result

vars == <<status, pc, err, nopts, mark, inp, log, devReg, devAddr,
          ptt_source, call, result>>

(***************************************************************************)
(* Integers as sets of bit positions                                       *)
(***************************************************************************)
RECURSIVE Pow2(_)
Pow2(n) == IF n = 0 THEN 1 ELSE 2 * Pow2(n - 1)

Pow2Table == [i \in 0..30 |-> Pow2(i)]

\* The bits of a number below 2^31.
Bits(n) == {i \in 0..30 : (n \div Pow2Table[i]) % 2 = 1}

ByteBits == [b \in 0..255 |-> {i \in 0..7 : (b \div Pow2Table[i]) % 2 = 1}]

Shl(v, k) == {i + k : i \in v}
Shr(v, k) == {i - k : i \in {j \in v : j >= k}}
And(a, b) == a \cap b
Or(a, b) == a \cup b
\* v mod 2^w
LowBits(v, w) == {i \in v : i < w}

\* a + b: the sum is (a xor b) + 2 * (a and b).
RECURSIVE Add(_, _)
Add(a, b) ==
    IF a \cap b = {} THEN a \cup b
    ELSE Add((a \cup b) \ (a \cap b), Shl(a \cap b, 1))

\* Byte i (0 = least significant) of v, as a number 0..255.
RECURSIVE SumBits(_, _, _)
SumBits(v, i, b) ==
    IF b = 8 THEN 0
    ELSE (IF (8 * i + b) \in v THEN Pow2Table[b] ELSE 0) + SumBits(v, i, b + 1)

ByteOf(v, i) == SumBits(v, i, 0)

(***************************************************************************)
(* struct.Struct                                                           *)
(***************************************************************************)
StructError == <<"struct.error">>

\* format "<L": four bytes, least significant first; out of range raises.
PackL(v) ==
    IF \E i \in v : i >= 32 THEN StructError
    ELSE <<ByteOf(v, 0), ByteOf(v, 1), ByteOf(v, 2), ByteOf(v, 3)>>

UnpackL(bytes) ==
    UNION {Shl(ByteBits[bytes[i]], 8 * (i - 1)) : i \in 1..4}

\* format "<BBBL"
PackBBBL(b0, b1, b2, v) ==
    IF b0 \notin 0..255 \/ b1 \notin 0..255 \/ b2 \notin 0..255
       \/ PackL(v) = StructError
    THEN StructError
    ELSE <<b0, b1, b2>> \o PackL(v)

UnpackBBBL(data) == <<data[1], data[2], data[3], UnpackL(SubSeq(data, 4, 7))>>

\* format "<BBBBB"
PackBBBBB(b0, b1, b2, b3, b4) ==
    IF \E b \in {b0, b1, b2, b3, b4} : b \notin 0..255 THEN StructError
    ELSE <<b0, b1, b2, b3, b4>>

(***************************************************************************)
(* Enumerations                                                            *)
(***************************************************************************)
MAGIC == 0
USBID == 8
AIOC_IOMUX0 == 36
AIOC_IOMUX1 == 37
CM108_IOMUX0 == 68
CM108_IOMUX1 == 69
CM108_IOMUX2 == 70
CM108_IOMUX3 == 71
SERIAL_CTRL == 96
SERIAL_IOMUX0 == 100
SERIAL_IOMUX1 == 101
SERIAL_IOMUX2 == 102
SERIAL_IOMUX3 == 103
AUDIO_RX == 114
AUDIO_TX == 120
VPTT_LVLCTRL == 130
VPTT_TIMCTRL == 132
VCOS_LVLCTRL == 146
VCOS_TIMCTRL == 148
FOXHUNT_CTRL == 160
FOXHUNT_MSG0 == 162
FOXHUNT_MSG1 == 163
FOXHUNT_MSG2 == 164
FOXHUNT_MSG3 == 165

\* class Register, in definition order (the order dump() iterates in).
Register ==
    <<MAGIC, USBID, AIOC_IOMUX0, AIOC_IOMUX1, CM108_IOMUX0, CM108_IOMUX1,
      CM108_IOMUX2, CM108_IOMUX3, SERIAL_CTRL, SERIAL_IOMUX0, SERIAL_IOMUX1,
      SERIAL_IOMUX2, SERIAL_IOMUX3, AUDIO_RX, AUDIO_TX, VPTT_LVLCTRL,
      VPTT_TIMCTRL, VCOS_LVLCTRL, VCOS_TIMCTRL, FOXHUNT_CTRL, FOXHUNT_MSG0,
      FOXHUNT_MSG1, FOXHUNT_MSG2, FOXHUNT_MSG3>>

RegisterSet == {Register[i] : i \in DOMAIN Register}

\* class Command
CMD_NONE == 0
WRITESTROBE == 1
DEFAULTS == 16
REBOOT == 32
RECALL == 64
STORE == 128

\* class PTTSource, in definition order.
PTTSource ==
    <<[name |-> "NONE", value |-> {}],
      [name |-> "CM108GPIO1", value |-> {0}],
      [name |-> "CM108GPIO2", value |-> {1}],
      [name |-> "CM108GPIO3", value |-> {2}],
      [name |-> "CM108GPIO4", value |-> {3}],
      [name |-> "SERIALDTR", value |-> {8}],
      [name |-> "SERIALRTS", value |-> {9}],
      [name |-> "SERIALDTRNRTS", value |-> {10}],
      [name |-> "SERIALNDTRRTS", value |-> {11}],
      [name |-> "VPTT", value |-> {12}]>>

\* class PTTChannel: the pin numbers of the raw HID write.
PTT1 == 3
PTT2 == 4

\* class CM108ButtonSource, in definition order.
CM108ButtonSource ==
    <<[name |-> "NONE", value |-> {}],
      [name |-> "IN1", value |-> {16}],
      [name |-> "IN2", value |-> {17}],
      [name |-> "VCOS", value |-> {24}]>>

\* class TXBoost
TXBoost ==
    <<[name |-> "TXBOOSTOFF", value |-> {}],
      [name |-> "TXBOOSTON", value |-> {8}]>>

\* class RXGain
RXGain ==
    <<[name |-> "RXGAIN1X", value |-> {}],
      [name |-> "RXGAIN2X", value |-> {0}],
      [name |-> "RXGAIN4X", value |-> {1}],
      [name |-> "RXGAIN8X", value |-> {0, 1}],
      [name |-> "RXGAIN16X", value |-> {2}]>>

\* Enum[name] and Enum(value): the member, or no member.
HasName(enum, n) == \E i \in DOMAIN enum : enum[i].name = n
ByName(enum, n) == enum[CHOOSE i \in DOMAIN enum : enum[i].name = n]
HasValue(enum, v) == \E i \in DOMAIN enum : enum[i].value = v
ByValue(enum, v) == enum[CHOOSE i \in DOMAIN enum : enum[i].value = v]

(***************************************************************************)
(* Texts.  A command-line flag string and a displayed flag value are       *)
(* sequences of pieces: a flag name, the separator "|", a digit, "0x".     *)
(* A foxhunt message is a sequence of code points.                         *)
(***************************************************************************)
SEP == "|"

RECURSIVE Join(_)
Join(names) ==
    IF Len(names) = 0 THEN <<>>
    ELSE IF Len(names) = 1 THEN <<names[1]>>
    ELSE <<names[1], SEP>> \o Join(Tail(names))

\* str.split("|"): the parts between separators; "" splits into one empty part.
RECURSIVE Split(_)
Split(text) ==
    IF \A i \in DOMAIN text : text[i] # SEP THEN <<text>>
    ELSE LET i == CHOOSE j \in DOMAIN text :
                      text[j] = SEP /\ \A k \in 1..(j - 1) : text[k] # SEP
         IN  <<SubSeq(text, 1, i - 1)>> \o Split(SubSeq(text, i + 1, Len(text)))

HexDigits == <<"0", "1", "2", "3", "4", "5", "6", "7",
               "8", "9", "a", "b", "c", "d", "e", "f">>

Nibble(v, k) == Cardinality({0} \cap Shr(v, 4 * k))
                + 2 * Cardinality({1} \cap Shr(v, 4 * k))
                + 4 * Cardinality({2} \cap Shr(v, 4 * k))
                + 8 * Cardinality({3} \cap Shr(v, 4 * k))

RECURSIVE HexFrom(_, _)
HexFrom(v, k) ==
    IF k < 0 THEN <<>> ELSE <<HexDigits[Nibble(v, k) + 1]>> \o HexFrom(v, k - 1)

\* hex(v): "0x" and the digits from the highest nonzero one.
Hex(v) ==
    IF v = {} THEN <<"0x", "0">>
    ELSE LET top == CHOOSE i \in v : \A j \in v : j <= i
         IN  <<"0x">> \o HexFrom(v, top \div 4)

\* repr(v) of a value below 2^32: its decimal digits, by long division of
\* the two 16-bit halves.
RECURSIVE DecFrom(_, _)
DecFrom(hi, lo) ==
    LET t == (hi % 10) * 65536 + lo
        d == <<HexDigits[(t % 10) + 1]>>
    IN  IF hi \div 10 = 0 /\ t \div 10 = 0 THEN d
        ELSE DecFrom(hi \div 10, t \div 10) \o d

Dec(v) == DecFrom(ByteOf(v, 2) + 256 * ByteOf(v, 3),
                  ByteOf(v, 0) + 256 * ByteOf(v, 1))

(***************************************************************************)
(* The device and the transport (hid.Device).  The device keeps one        *)
(* current address, set by every feature report it receives, and answers   *)
(* a feature-report read with the register at that address.                *)
(***************************************************************************)
World == [log |-> log, reg |-> devReg, addr |-> devAddr]

DeviceReceive(reg, data) ==
    IF data[2] % 2 = WRITESTROBE /\ data[3] \in DOMAIN reg
    THEN [reg EXCEPT ![data[3]] = UnpackL(SubSeq(data, 4, 7))]
    ELSE reg

DeviceReport(w) ==
    <<0, 0, w.addr>>
    \o (IF w.addr \in DOMAIN w.reg THEN PackL(w.reg[w.addr]) ELSE PackL({}))

send_feature_report(w, data) ==
    [log |-> Append(w.log, [op |-> "send_feature_report", data |-> data]),
     reg |-> DeviceReceive(w.reg, data),
     addr |-> data[3]]

get_feature_report(w) ==
    [w EXCEPT !.log = Append(@, [op |-> "get_feature_report",
                                 data |-> DeviceReport(w)])]

device_write(w, data) ==
    [w EXCEPT !.log = Append(@, [op |-> "write", data |-> data])]

\* The outcome of a step: the world it leaves and the exception it raised.
Ok(w) == [w |-> w, err |-> ""]
Raise(w, e) == [w |-> w, err |-> e]

(***************************************************************************)
(* read, write_feat_report, cmd, dump, set_ptt_state_raw                   *)
(***************************************************************************)
ReadRequest(address) == PackBBBL(0, CMD_NONE, address, {})

\* A faulty variant: the report is retrieved before the register is selected.
read_then_select(w, address) ==
    LET w1 == get_feature_report(w)
        w2 == send_feature_report(w1, ReadRequest(address))
        data == w1.log[Len(w1.log)].data
    IN  [w |-> w2, value |-> UnpackBBBL(data)[4]]

read(w, address) ==
    LET w1 == send_feature_report(w, ReadRequest(address))
        w2 == get_feature_report(w1)
        data == w2.log[Len(w2.log)].data
    IN  [w |-> w2, value |-> UnpackBBBL(data)[4]]

\* A faulty variant: the value is packed most significant byte first.
WriteDataBigEndian(address, value) ==
    LET data == PackBBBL(0, WRITESTROBE, address, value)
    IN  IF data = StructError THEN StructError
        ELSE <<data[1], data[2], data[3], data[7], data[6], data[5], data[4]>>

WriteData(address, value) == PackBBBL(0, WRITESTROBE, address, value)

write_feat_report(w, address, value) ==
    IF WriteData(address, value) = StructError THEN Raise(w, "struct.error")
    ELSE Ok(send_feature_report(w, WriteData(address, value)))

CmdData(c) == PackBBBL(0, c, 0, {})

cmd(w, c) == send_feature_report(w, CmdData(c))

RECURSIVE ReadEach(_, _, _)
ReadEach(w, regs, i) ==
    IF i > Len(regs) THEN w
    ELSE CHOOSE after \in {ReadEach(next, regs, i + 1) :
                              next \in {read(w, regs[i]).w}} : TRUE

dump(w) == ReadEach(w, Register, 1)

\* A faulty variant: the data byte has the pin's bit whatever the state.
RawPinDataAlwaysSet(pin_num, state_on) ==
    LET iomask == Pow2Table[pin_num - 1]
    IN  PackBBBBB(0, 0, iomask, iomask, 0)

RawPinData(pin_num, state_on) ==
    LET state == IF state_on THEN 1 ELSE 0
        iomask == Pow2Table[pin_num - 1]
        iodata == state * Pow2Table[pin_num - 1]
    IN  PackBBBBB(0, 0, iodata, iomask, 0)

set_ptt_state_raw(w, pin_num, state_on) ==
    IF RawPinData(pin_num, state_on) = StructError
    THEN Raise(w, "struct.error")
    ELSE Ok(device_write(w, RawPinData(pin_num, state_on)))

(***************************************************************************)
(* parse_ptt_source, parse_btn_source: sum(Enum[p] for p in parts)         *)
(***************************************************************************)
KeyError == [err |-> "KeyError", value |-> {}]

\* A part names a member when it is exactly one piece, a member's name.
IsMemberName(enum, part) == Len(part) = 1 /\ HasName(enum, part[1])

RECURSIVE SumMembers(_, _, _, _)
SumMembers(enum, parts, i, acc) ==
    IF i > Len(parts) THEN [err |-> "", value |-> acc]
    ELSE IF ~IsMemberName(enum, parts[i]) THEN KeyError
    ELSE SumMembers(enum, parts, i + 1,
                    Add(acc, ByName(enum, parts[i][1]).value))

\* A faulty variant: names that are not members are skipped.
RECURSIVE SumKnownMembers(_, _, _, _)
SumKnownMembers(enum, parts, i, acc) ==
    IF i > Len(parts) THEN [err |-> "", value |-> acc]
    ELSE IF ~IsMemberName(enum, parts[i])
    THEN SumKnownMembers(enum, parts, i + 1, acc)
    ELSE SumKnownMembers(enum, parts, i + 1,
                         Add(acc, ByName(enum, parts[i][1]).value))

parse_source_lenient(enum, val) == SumKnownMembers(enum, Split(val), 1, {})

parse_source(enum, val) == SumMembers(enum, Split(val), 1, {})

parse_ptt_source(val) == parse_source(PTTSource, val)

parse_btn_source(val) == parse_source(CM108ButtonSource, val)

(***************************************************************************)
(* StrIntFlag.__str__                                                      *)
(***************************************************************************)
\* The names of the members with a nonzero value contained in raw, in
\* definition order.
RECURSIVE ContainedFrom(_, _, _)
ContainedFrom(enum, raw, i) ==
    IF i > Len(enum) THEN <<>>
    ELSE (IF enum[i].value # {} /\ enum[i].value \subseteq raw
          THEN <<enum[i].name>> ELSE <<>>)
         \o ContainedFrom(enum, raw, i + 1)

Contained(enum, raw) == ContainedFrom(enum, raw, 1)

ContainedBits(enum, raw) ==
    UNION {enum[i].value : i \in {j \in DOMAIN enum : enum[j].value \subseteq raw}}

NoName == <<>>

\* IntFlag.name.  A member's value has the member's name.  For any other
\* value the enum module of Python up to 3.10 gives None; from 3.11 on it
\* names the pseudo-member after the members it contains, followed by the
\* decimal form of the bits no member has, and gives None only when the
\* value contains no member.
FlagName(enum, raw, named_pseudo) ==
    IF HasValue(enum, raw) THEN <<ByValue(enum, raw).name>>
    ELSE IF ~named_pseudo \/ Contained(enum, raw) = <<>> THEN NoName
    ELSE IF raw = ContainedBits(enum, raw) THEN Join(Contained(enum, raw))
    ELSE Join(Contained(enum, raw))
         \o <<SEP>> \o Dec(raw \ ContainedBits(enum, raw))

StrIntFlag_str(enum, raw, named_pseudo) ==
    LET name == FlagName(enum, raw, named_pseudo)
        parts == Contained(enum, raw)
    IN  IF name # NoName THEN name
        ELSE IF parts # <<>> THEN Join(parts)
        ELSE Hex(raw)

(***************************************************************************)
(* The foxhunt message: 16 bytes in FOXHUNT_MSG0..3                        *)
(***************************************************************************)
MSG_REGISTERS == <<FOXHUNT_MSG0, FOXHUNT_MSG1, FOXHUNT_MSG2, FOXHUNT_MSG3>>

\* str.encode('ascii', errors='replace'): a non-ASCII character becomes "?".
EncodeAscii(text) == [i \in DOMAIN text |-> IF text[i] < 128 THEN text[i] ELSE 63]

\* bytes.decode('ascii', errors='replace'): a byte over 127 becomes U+FFFD.
DecodeAscii(bytes) ==
    [i \in DOMAIN bytes |-> IF bytes[i] < 128 THEN bytes[i] ELSE 65533]

Ljust16(bytes) == bytes \o [i \in 1..(16 - Len(bytes)) |-> 0]

\* A faulty variant: the message is cut to 15 bytes.
MessageBytes15(text) ==
    LET enc == EncodeAscii(text)
    IN  Ljust16(SubSeq(enc, 1, IF Len(enc) < 15 THEN Len(enc) ELSE 15))

MessageBytes(text) ==
    LET enc == EncodeAscii(text)
    IN  Ljust16(SubSeq(enc, 1, IF Len(enc) < 16 THEN Len(enc) ELSE 16))

\* int.from_bytes(message_bytes[4i : 4i + 4], 'little'), i = 0..3
MessageWord(message_bytes, i) == UnpackL(SubSeq(message_bytes, 4 * i + 1, 4 * i + 4))

\* The message of four register values: their bytes in order, cut at the
\* first zero byte.
MessageOfWords(words) ==
    LET message_bytes == PackL(words[1]) \o PackL(words[2])
                         \o PackL(words[3]) \o PackL(words[4])
    IN  IF \E i \in 1..16 : message_bytes[i] = 0
        THEN LET null_index == CHOOSE i \in 1..16 :
                     message_bytes[i] = 0
                     /\ \A k \in 1..(i - 1) : message_bytes[k] # 0
             IN  DecodeAscii(SubSeq(message_bytes, 1, null_index - 1))
        ELSE DecodeAscii(message_bytes)

(***************************************************************************)
(* The blocks of main(), in the order main() reaches them.  Each is a      *)
(* function of the world (transport log and device) to an outcome.         *)
(***************************************************************************)
\* o, and then f of the world o leaves, unless o raised.
Then(o, F(_)) == IF o.err # "" THEN o ELSE F(o.w)

ReadBack(w, regs) == Ok(ReadEach(w, regs, 1))

\* An option that takes a string: absent (None) or given with a text.
Absent == [given |-> FALSE, text |-> <<>>]
Given(text) == [given |-> TRUE, text |-> text]
\* "if args.x:" is false for None and for the empty string.
Truthy(a) == a.given /\ a.text # <<>>

\* An option that takes an integer: absent (None) or given.
NoInt == [given |-> FALSE, value |-> {}]
IntArg(v) == [given |-> TRUE, value |-> v]

Unbound == <<"unbound">>

\* A faulty variant: any magic value is accepted.
MagicAny(value) == TRUE

MagicOk(value) == PackL(value) = <<65, 73, 79, 67>>

DefaultsBlock(w) == Ok(cmd(w, DEFAULTS))

\* The three string descriptors the dump prints first.
DumpStrings(w) ==
    [w EXCEPT !.log = @ \o <<[op |-> "manufacturer", data |-> <<>>],
                             [op |-> "product", data |-> <<>>],
                             [op |-> "serial", data |-> <<>>]>>]

DumpPttSource(w) ==
    LET r1 == read(DumpStrings(w), AIOC_IOMUX0)
        r2 == read(r1.w, AIOC_IOMUX1)
    IN  [w |-> r2.w, ptt1_source |-> r1.value, ptt2_source |-> r2.value]

DumpBlock(w) ==
    LET s == DumpPttSource(w)
        b == ReadEach(s.w, <<CM108_IOMUX0, CM108_IOMUX1, CM108_IOMUX2,
                             CM108_IOMUX3>>, 1)
    IN  Ok(dump(b))

SwapPttBlock(w, src) ==
    IF src = Unbound THEN Raise(w, "UnboundLocalError")
    ELSE LET p1 == src[2]
             p2 == src[1]
             o1 == write_feat_report(w, AIOC_IOMUX0, p1)
             o2 == Then(o1, LAMBDA x : write_feat_report(x, AIOC_IOMUX1, p2))
         IN  Then(o2, LAMBDA x : ReadBack(x, <<AIOC_IOMUX0, AIOC_IOMUX1>>))

AutoPtt1Block(w) ==
    Then(write_feat_report(w, AIOC_IOMUX0, ByName(PTTSource, "VPTT").value),
         LAMBDA x : ReadBack(x, <<AIOC_IOMUX0, AIOC_IOMUX1>>))

\* "if args.a: v = parse(args.a); write_feat_report(aioc, reg, Enum(v))"
SetSource(w, enum, reg, a) ==
    IF ~Truthy(a) THEN Ok(w)
    ELSE LET p == parse_source(enum, a.text)
         IN  IF p.err # "" THEN Raise(w, p.err)
             ELSE write_feat_report(w, reg, p.value)

SourcesBlock(w, enum, reg1, reg2, a1, a2) ==
    LET o1 == SetSource(w, enum, reg1, a1)
        o2 == Then(o1, LAMBDA x : SetSource(x, enum, reg2, a2))
    IN  Then(o2, LAMBDA x : ReadBack(x, <<reg1, reg2>>))

PttBlock(w, a1, a2) ==
    SourcesBlock(w, PTTSource, AIOC_IOMUX0, AIOC_IOMUX1, a1, a2)

VolBlock(w, a1, a2) ==
    SourcesBlock(w, CM108ButtonSource, CM108_IOMUX0, CM108_IOMUX1, a1, a2)

UsbIdValue(vid, pid) == Or(Shl(pid, 16), Shl(vid, 0))

SetUsbBlock(w, vid, pid) ==
    Then(write_feat_report(w, USBID, UsbIdValue(vid, pid)),
         LAMBDA x : ReadBack(x, <<USBID>>))

ScalarBlock(w, reg, value) ==
    Then(write_feat_report(w, reg, value), LAMBDA x : ReadBack(x, <<reg>>))

ButtonsBlock(w, n1, n2) ==
    LET o1 == write_feat_report(w, CM108_IOMUX0,
                                ByName(CM108ButtonSource, n1).value)
        o2 == Then(o1, LAMBDA x : write_feat_report(x, CM108_IOMUX1,
                                ByName(CM108ButtonSource, n2).value))
    IN  Then(o2, LAMBDA x : ReadBack(x, <<CM108_IOMUX0, CM108_IOMUX1>>))

EnableHwcosBlock(w) == ButtonsBlock(w, "NONE", "IN2")

EnableVcosBlock(w) == ButtonsBlock(w, "IN2", "VCOS")

FoxhuntGetSettingsBlock(w) == ReadBack(w, <<FOXHUNT_CTRL>>)

\* "for i, reg in enumerate(msg_registers): uint32_val = read(aioc, reg)"
RECURSIVE ReadValues(_, _, _, _)
ReadValues(w, regs, i, values) ==
    IF i > Len(regs) THEN [w |-> w, values |-> values]
    ELSE CHOOSE after \in {ReadValues(r.w, regs, i + 1, Append(values, r.value)) :
                              r \in {read(w, regs[i])}} : TRUE

FoxhuntGetMessageBlock(w) == Ok(ReadValues(w, MSG_REGISTERS, 1, <<>>).w)

\* message_str, as printed by --foxhunt-get-message
FoxhuntGetMessageStr(w) ==
    MessageOfWords(ReadValues(w, MSG_REGISTERS, 1, <<>>).values)

MASK16 == Bits(65535)
MASK8 == Bits(255)

FoxhuntVolume(current) == And(Shr(current, 16), MASK16)
FoxhuntWpm(current) == And(Shr(current, 8), MASK8)
FoxhuntInterval(current) == And(Shr(current, 0), MASK8)

NewFoxhunt(current, volume, wpm, interval) ==
    LET new_volume == IF volume.given THEN volume.value
                      ELSE FoxhuntVolume(current)
        new_wpm == IF wpm.given THEN wpm.value ELSE FoxhuntWpm(current)
        new_interval == IF interval.given THEN interval.value
                        ELSE FoxhuntInterval(current)
    IN  Or(Or(Shl(new_volume, 16), Shl(new_wpm, 8)), Shl(new_interval, 0))

FoxhuntCtrlBlock(w, volume, wpm, interval) ==
    LET r == read(w, FOXHUNT_CTRL)
    IN  Then(write_feat_report(r.w, FOXHUNT_CTRL,
                               NewFoxhunt(r.value, volume, wpm, interval)),
             LAMBDA x : ReadBack(x, <<FOXHUNT_CTRL>>))

RECURSIVE WriteWords(_, _, _)
WriteWords(o, message_bytes, i) ==
    IF i > 3 \/ o.err # "" THEN o
    ELSE WriteWords(write_feat_report(o.w, MSG_REGISTERS[i + 1],
                                      MessageWord(message_bytes, i)),
                    message_bytes, i + 1)

FoxhuntMessageBlock(w, text) == WriteWords(Ok(w), MessageBytes(text), 0)

\* RXGain(current_rx), TXBoost(current_tx): no member has the value.
\* f"{v:08x}"
Hex08(v) == HexFrom(v, 7)

Unknown(v) == <<"unknown (">> \o Hex08(v) \o <<")">>

ValueError == <<"ValueError">>

rx_gain_names ==
    <<[key |-> "RXGAIN1X", text |-> <<"1x">>],
      [key |-> "RXGAIN2X", text |-> <<"2x">>],
      [key |-> "RXGAIN4X", text |-> <<"4x">>],
      [key |-> "RXGAIN8X", text |-> <<"8x">>],
      [key |-> "RXGAIN16X", text |-> <<"16x">>]>>

tx_boost_names ==
    <<[key |-> "TXBOOSTOFF", text |-> <<"off">>],
      [key |-> "TXBOOSTON", text |-> <<"on">>]>>

\* names.get(Enum(current), f"unknown ({current:08x})"): Enum(current) is
\* evaluated first, and raises ValueError when current is no member's value.
NameOrUnknown(enum, names, current) ==
    IF ~HasValue(enum, current) THEN ValueError
    ELSE LET member == ByValue(enum, current).name
         IN  IF \E i \in DOMAIN names : names[i].key = member
             THEN names[CHOOSE i \in DOMAIN names : names[i].key = member].text
             ELSE Unknown(current)

rx_gain_name(current_rx) == NameOrUnknown(RXGain, rx_gain_names, current_rx)

tx_boost_name(current_tx) == NameOrUnknown(TXBoost, tx_boost_names, current_tx)

AudioGetSettingsBlock(w) ==
    LET rx == read(w, AUDIO_RX)
        tx == read(rx.w, AUDIO_TX)
    IN  IF ~HasValue(RXGain, rx.value) \/ ~HasValue(TXBoost, tx.value)
        THEN Raise(tx.w, "ValueError")
        ELSE Ok(tx.w)

GainMap(gain) ==
    CASE gain = "1x" -> "RXGAIN1X"
      [] gain = "2x" -> "RXGAIN2X"
      [] gain = "4x" -> "RXGAIN4X"
      [] gain = "8x" -> "RXGAIN8X"
      [] gain = "16x" -> "RXGAIN16X"

AudioRxGainBlock(w, gain) ==
    ScalarBlock(w, AUDIO_RX, ByName(RXGain, GainMap(gain)).value)

BoostMap(boost) ==
    CASE boost = "off" -> "TXBOOSTOFF"
      [] boost = "on" -> "TXBOOSTON"

AudioTxBoostBlock(w, boost) ==
    ScalarBlock(w, AUDIO_TX, ByName(TXBoost, BoostMap(boost)).value)

StoreBlock(w) == Ok(cmd(w, STORE))

RebootBlock(w) == Ok(cmd(w, REBOOT))

Ptt1StateBlock(w, state) == set_ptt_state_raw(w, PTT1, state = "on")

Ptt2StateBlock(w, state) == set_ptt_state_raw(w, PTT2, state = "on")

\* The blocks in the order of main().
Blocks ==
    <<"defaults", "dump", "swap_ptt", "auto_ptt1", "ptt", "set_usb", "vol",
      "vptt_lvlctrl", "vptt_timctrl", "vcos_lvlctrl", "vcos_timctrl",
      "enable_hwcos", "enable_vcos", "foxhunt_get_settings",
      "foxhunt_get_message", "foxhunt_ctrl", "foxhunt_message",
      "audio_get_settings", "audio_rx_gain", "audio_tx_boost", "store",
      "set_ptt1_state", "set_ptt2_state", "reboot">>

\* A faulty variant: the reboot block stands where the store block should,
\* and the store block comes last.
IdxRebootBeforeStore(name) ==
    LET other == IF name = "reboot" THEN "store"
                 ELSE IF name = "store" THEN "reboot" ELSE name
    IN  CHOOSE i \in DOMAIN Blocks : Blocks[i] = other

Idx(name) == CHOOSE i \in DOMAIN Blocks : Blocks[i] = name

(***************************************************************************)
(* Bounds and inputs                                                       *)
(***************************************************************************)
\* The options given on one command line.
MaxOpts == 2
\* The longest run of one character in a foxhunt message.
MaxRepeat == 17

AIOC == UnpackL(<<65, 73, 79, 67>>)

\* What the device holds when the run starts.
DeviceImage(magic, ptt1, ptt2, rx, tx) ==
    [r \in RegisterSet |->
        CASE r = MAGIC -> magic
          [] r = USBID -> Or(Shl(Bits(29576), 16), Bits(4617))
          [] r = AIOC_IOMUX0 -> ptt1
          [] r = AIOC_IOMUX1 -> ptt2
          [] r = CM108_IOMUX0 -> {17}
          [] r = CM108_IOMUX1 -> {24}
          [] r = AUDIO_RX -> rx
          [] r = AUDIO_TX -> tx
          [] r = FOXHUNT_CTRL -> Or(Shl(Bits(32768), 16), Bits(5180))
          [] r = FOXHUNT_MSG0 -> UnpackL(<<70, 79, 88, 0>>)
          [] OTHER -> {}]

DeviceImages ==
    {DeviceImage(UnpackL(<<65, 73, 79, 0>>), {2}, {12}, {}, {})}
    \cup {DeviceImage(AIOC, p[1], p[2], a[1], a[2]) :
            p \in {<<{2}, {12}>>, <<{0, 31}, {}>>},
            a \in {<<{0}, {8}>>, <<{0, 2}, {}>>, <<{}, {0}>>}}

PttTexts1 ==
    {<<>>, <<"VPTT">>, <<"CM108GPIO2", SEP, "VPTT">>, <<"VPTT", SEP, "VPTT">>,
     <<"VPTT", SEP, "BOGUS">>}
PttTexts2 == {<<"CM108GPIO1">>, <<"BOGUS">>}
BtnTexts1 == {<<>>, <<"IN2">>, <<"IN1", SEP, "NOPE">>}
BtnTexts2 == {<<"IN1", SEP, "VCOS">>, <<"VCOS", SEP>>}

SourceArgs(texts1, texts2) ==
    {a \in ({Absent} \cup {Given(t) : t \in texts1})
           \X ({Absent} \cup {Given(t) : t \in texts2}) :
        Truthy(a[1]) \/ Truthy(a[2])}

UsbIds == {<<Bits(4617), Bits(29576)>>, <<Bits(131071), Bits(29576)>>,
           <<Bits(4617), Bits(131071)>>}

ScalarValues == {Bits(64), {31}}

FoxhuntArgs ==
    {a \in {NoInt, IntArg(Bits(4096)), IntArg(Bits(65536))}
           \X {NoInt, IntArg(Bits(256))} \X {NoInt, IntArg(Bits(60))} :
        a[1].given \/ a[2].given \/ a[3].given}

Rep(c, n) == [i \in 1..n |-> c]

\* Messages for main(): "HELLO", seventeen "X", a non-ASCII one, the empty one.
MainMessages == {<<72, 69, 76, 76, 79>>, Rep(88, 17), <<233, 65>>, <<>>}

(***************************************************************************)
(* The run of main()                                                       *)
(***************************************************************************)
NoInput == [block |-> ""]
NoCall == <<"none">>
NoResult == <<"none">>

Init ==
    /\ status = "start"
    /\ pc = 0
    /\ err = ""
    /\ nopts = 0
    /\ mark = 0
    /\ inp = NoInput
    /\ log = <<>>
    /\ devReg \in DeviceImages
    /\ devAddr \in {USBID, AUDIO_TX}
    /\ ptt_source = Unbound
    /\ call = NoCall
    /\ result = NoResult

\* --list-ptt-sources: print the members and exit before the device is opened.
ListPttSources ==
    /\ status = "start"
    /\ status' = "exit"
    /\ UNCHANGED <<pc, err, nopts, mark, inp, log, devReg, devAddr,
                   ptt_source, call, result>>

\* Open the device, read MAGIC and exit unless it is "AIOC".
CheckMagic ==
    /\ status = "start"
    /\ LET r == read(World, MAGIC)
       IN  /\ log' = r.w.log
           /\ devReg' = r.w.reg
           /\ devAddr' = r.w.addr
           /\ status' = IF MagicOk(r.value) THEN "running" ELSE "exit"
           /\ err' = IF MagicOk(r.value) THEN "" ELSE "Unexpected magic"
    /\ UNCHANGED <<pc, nopts, mark, inp, ptt_source, call, result>>

\* main() reaches the block of an option that was given; the blocks between
\* the last one and this one belong to options that were not.
Enter(name, input) ==
    /\ status = "running"
    /\ pc < Idx(name)
    /\ nopts < MaxOpts
    /\ pc' = Idx(name)
    /\ nopts' = nopts + 1
    /\ mark' = Len(log)
    /\ inp' = input
    /\ UNCHANGED <<call, result>>

Leave(o) ==
    /\ log' = o.w.log
    /\ devReg' = o.w.reg
    /\ devAddr' = o.w.addr
    /\ status' = IF o.err = "" THEN "running" ELSE "error"
    /\ err' = o.err

\* What the device holds after DEFAULTS is the device's business: any image
\* with the same magic.
Defaults ==
    /\ Enter("defaults", [block |-> "defaults"])
    /\ LET o == DefaultsBlock(World)
       IN  /\ log' = o.w.log
           /\ devAddr' = o.w.addr
           /\ devReg' \in {img \in DeviceImages : img[MAGIC] = devReg[MAGIC]}
           /\ status' = "running"
           /\ err' = ""
    /\ UNCHANGED ptt_source

Dump ==
    /\ Enter("dump", [block |-> "dump"])
    /\ Leave(DumpBlock(World))
    /\ ptt_source' = <<DumpPttSource(World).ptt1_source,
                       DumpPttSource(World).ptt2_source>>

SwapPtt ==
    /\ Enter("swap_ptt", [block |-> "swap_ptt"])
    /\ Leave(SwapPttBlock(World, ptt_source))
    /\ UNCHANGED ptt_source

AutoPtt1 ==
    /\ Enter("auto_ptt1", [block |-> "auto_ptt1"])
    /\ Leave(AutoPtt1Block(World))
    /\ UNCHANGED ptt_source

Ptt ==
    \E a \in SourceArgs(PttTexts1, PttTexts2) :
        /\ Enter("ptt", [block |-> "ptt", a1 |-> a[1], a2 |-> a[2]])
        /\ Leave(PttBlock(World, a[1], a[2]))
        /\ UNCHANGED ptt_source

SetUsb ==
    \E a \in UsbIds :
        /\ Enter("set_usb", [block |-> "set_usb", vid |-> a[1], pid |-> a[2]])
        /\ Leave(SetUsbBlock(World, a[1], a[2]))
        /\ UNCHANGED ptt_source

Vol ==
    \E a \in SourceArgs(BtnTexts1, BtnTexts2) :
        /\ Enter("vol", [block |-> "vol", a1 |-> a[1], a2 |-> a[2]])
        /\ Leave(VolBlock(World, a[1], a[2]))
        /\ UNCHANGED ptt_source

Scalar(name, reg) ==
    \E v \in ScalarValues :
        /\ Enter(name, [block |-> name, value |-> v])
        /\ Leave(ScalarBlock(World, reg, v))
        /\ UNCHANGED ptt_source

VpttLvlctrl == Scalar("vptt_lvlctrl", VPTT_LVLCTRL)
VpttTimctrl == Scalar("vptt_timctrl", VPTT_TIMCTRL)
VcosLvlctrl == Scalar("vcos_lvlctrl", VCOS_LVLCTRL)
VcosTimctrl == Scalar("vcos_timctrl", VCOS_TIMCTRL)

EnableHwcos ==
    /\ Enter("enable_hwcos", [block |-> "enable_hwcos"])
    /\ Leave(EnableHwcosBlock(World))
    /\ UNCHANGED ptt_source

EnableVcos ==
    /\ Enter("enable_vcos", [block |-> "enable_vcos"])
    /\ Leave(EnableVcosBlock(World))
    /\ UNCHANGED ptt_source

FoxhuntGetSettings ==
    /\ Enter("foxhunt_get_settings", [block |-> "foxhunt_get_settings"])
    /\ Leave(FoxhuntGetSettingsBlock(World))
    /\ UNCHANGED ptt_source

FoxhuntGetMessage ==
    /\ Enter("foxhunt_get_message", [block |-> "foxhunt_get_message"])
    /\ Leave(FoxhuntGetMessageBlock(World))
    /\ UNCHANGED ptt_source

FoxhuntCtrl ==
    \E a \in FoxhuntArgs :
        /\ Enter("foxhunt_ctrl", [block |-> "foxhunt_ctrl", volume |-> a[1],
                                  wpm |-> a[2], interval |-> a[3]])
        /\ Leave(FoxhuntCtrlBlock(World, a[1], a[2], a[3]))
        /\ UNCHANGED ptt_source

FoxhuntMessage ==
    \E text \in MainMessages :
        /\ Enter("foxhunt_message", [block |-> "foxhunt_message",
                                     text |-> text])
        /\ Leave(FoxhuntMessageBlock(World, text))
        /\ UNCHANGED ptt_source

AudioGetSettings ==
    /\ Enter("audio_get_settings", [block |-> "audio_get_settings"])
    /\ Leave(AudioGetSettingsBlock(World))
    /\ UNCHANGED ptt_source

AudioRxGain ==
    \E gain \in {"1x", "2x", "4x", "8x", "16x"} :
        /\ Enter("audio_rx_gain", [block |-> "audio_rx_gain", gain |-> gain])
        /\ Leave(AudioRxGainBlock(World, gain))
        /\ UNCHANGED ptt_source

AudioTxBoost ==
    \E boost \in {"off", "on"} :
        /\ Enter("audio_tx_boost", [block |-> "audio_tx_boost",
                                    boost |-> boost])
        /\ Leave(AudioTxBoostBlock(World, boost))
        /\ UNCHANGED ptt_source

Store ==
    /\ Enter("store", [block |-> "store"])
    /\ Leave(StoreBlock(World))
    /\ UNCHANGED ptt_source

SetPtt1State ==
    \E state \in {"on", "off"} :
        /\ Enter("set_ptt1_state", [block |-> "set_ptt1_state",
                                    state |-> state])
        /\ Leave(Ptt1StateBlock(World, state))
        /\ UNCHANGED ptt_source

SetPtt2State ==
    \E state \in {"on", "off"} :
        /\ Enter("set_ptt2_state", [block |-> "set_ptt2_state",
                                    state |-> state])
        /\ Leave(Ptt2StateBlock(World, state))
        /\ UNCHANGED ptt_source

Reboot ==
    /\ Enter("reboot", [block |-> "reboot"])
    /\ Leave(RebootBlock(World))
    /\ UNCHANGED ptt_source

\* main() returns: no further option was given.
Return ==
    /\ status = "running"
    /\ status' = "done"
    /\ UNCHANGED <<pc, err, nopts, mark, inp, log, devReg, devAddr,
                   ptt_source, call, result>>

Next ==
    \/ ListPttSources
    \/ CheckMagic
    \/ Defaults
    \/ Dump
    \/ SwapPtt
    \/ AutoPtt1
    \/ Ptt
    \/ SetUsb
    \/ Vol
    \/ VpttLvlctrl
    \/ VpttTimctrl
    \/ VcosLvlctrl
    \/ VcosTimctrl
    \/ EnableHwcos
    \/ EnableVcos
    \/ FoxhuntGetSettings
    \/ FoxhuntGetMessage
    \/ FoxhuntCtrl
    \/ FoxhuntMessage
    \/ AudioGetSettings
    \/ AudioRxGain
    \/ AudioTxBoost
    \/ Store
    \/ SetPtt1State
    \/ SetPtt2State
    \/ Reboot
    \/ Return

Spec == Init /\ [][Next]_vars

(***************************************************************************)
(* The functions of the protocol layer called on their own, on inputs      *)
(* wider than the ones main() passes them.                                 *)
(***************************************************************************)
\* The names in a generated flag string.
MaxNames == 3

Addresses == {MAGIC, AIOC_IOMUX0, FOXHUNT_MSG3, 255}
Values == {{}, Bits(4098), Bits(16909060), {31}, 0..31, {32}, 0..32}
Pins == 1..9
PttNames == {"NONE", "CM108GPIO1", "CM108GPIO2", "VPTT", "BOGUS"}
BtnNames == {"NONE", "IN1", "VCOS", "IN3"}
FlagTexts(names) ==
    {Join(t) : t \in UNION {[1..k -> names] : k \in 1..MaxNames}}
PttRaws == SUBSET {0, 3, 12, 13, 31}
BtnRaws == SUBSET {0, 16, 17, 24}
Messages ==
    {prefix \o Rep(c, n) :
        prefix \in {<<>>, <<72, 69, 76, 76, 79>>, <<233>>, <<65, 0>>},
        c \in {88, 127}, n \in 0..MaxRepeat}

CodecInit ==
    /\ status = "call"
    /\ pc = 0
    /\ err = ""
    /\ nopts = 0
    /\ mark = 0
    /\ inp = NoInput
    /\ log = <<>>
    /\ devReg = DeviceImage(AIOC, {2}, {12}, {}, {})
    /\ devAddr = MAGIC
    /\ ptt_source = Unbound
    /\ result = NoResult
    /\ \/ call \in {<<"write_feat_report", a, v>> : a \in Addresses, v \in Values}
       \/ call \in {<<"set_ptt_state_raw", p, on>> : p \in Pins, on \in BOOLEAN}
       \/ call \in {<<"parse_ptt_source", t>> : t \in FlagTexts(PttNames)}
       \/ call \in {<<"parse_btn_source", t>> : t \in FlagTexts(BtnNames)}
       \/ call \in {<<"str", "PTTSource", raw, named>> :
                       raw \in PttRaws, named \in BOOLEAN}
       \/ call \in {<<"str", "CM108ButtonSource", raw, named>> :
                       raw \in BtnRaws, named \in BOOLEAN}
       \/ call \in {<<"foxhunt_message", t>> : t \in Messages}

Calling(name) ==
    /\ status = "call"
    /\ call[1] = name
    /\ UNCHANGED <<pc, nopts, mark, inp, ptt_source, call>>

Returns(o) ==
    /\ log' = o.w.log
    /\ devReg' = o.w.reg
    /\ devAddr' = o.w.addr
    /\ status' = IF o.err = "" THEN "returned" ELSE "raised"
    /\ err' = o.err

CallWriteFeatReport ==
    /\ Calling("write_feat_report")
    /\ Returns(write_feat_report(World, call[2], call[3]))
    /\ UNCHANGED result

CallSetPttStateRaw ==
    /\ Calling("set_ptt_state_raw")
    /\ Returns(set_ptt_state_raw(World, call[2], call[3]))
    /\ UNCHANGED result

Returned(r) ==
    /\ status' = IF r.err = "" THEN "returned" ELSE "raised"
    /\ err' = r.err
    /\ result' = r.value
    /\ UNCHANGED <<log, devReg, devAddr>>

CallParsePttSource ==
    /\ Calling("parse_ptt_source")
    /\ Returned(parse_ptt_source(call[2]))

CallParseBtnSource ==
    /\ Calling("parse_btn_source")
    /\ Returned(parse_btn_source(call[2]))

EnumOf(class) ==
    IF class = "PTTSource" THEN PTTSource ELSE CM108ButtonSource

CallStr ==
    /\ Calling("str")
    /\ Returned([err |-> "",
                 value |-> StrIntFlag_str(EnumOf(call[2]), call[3], call[4])])

\* --foxhunt-message in one run ...
CallFoxhuntMessage ==
    /\ Calling("foxhunt_message")
    /\ LET o == FoxhuntMessageBlock(World, call[2])
       IN  /\ log' = o.w.log
           /\ devReg' = o.w.reg
           /\ devAddr' = o.w.addr
           /\ status' = IF o.err = "" THEN "written" ELSE "raised"
           /\ err' = o.err
    /\ UNCHANGED result

\* ... and --foxhunt-get-message in the next.
CallFoxhuntGetMessage ==
    /\ status = "written"
    /\ Returns(FoxhuntGetMessageBlock(World))
    /\ result' = FoxhuntGetMessageStr(World)
    /\ UNCHANGED <<pc, nopts, mark, inp, ptt_source, call>>

CodecNext ==
    \/ CallWriteFeatReport
    \/ CallSetPttStateRaw
    \/ CallParsePttSource
    \/ CallParseBtnSource
    \/ CallStr
    \/ CallFoxhuntMessage
    \/ CallFoxhuntGetMessage

CodecSpec == CodecInit /\ [][CodecNext]_vars

(***************************************************************************)
(* Properties                                                              *)
(***************************************************************************)
\* The transport calls of the block main() handled last.
BlockCalls == SubSeq(log, mark + 1, Len(log))

IsFeature(e) == e.op = "send_feature_report" /\ Len(e.data) = 7
IsWriteFrame(e) == IsFeature(e) /\ e.data[2] = WRITESTROBE
IsSelectFrame(e) ==
    /\ IsFeature(e)
    /\ e.data[1] = 0
    /\ e.data[2] = CMD_NONE
    /\ e.data[3] \in RegisterSet
    /\ SubSeq(e.data, 4, 7) = <<0, 0, 0, 0>>
IsGet(e) == e.op = "get_feature_report"

\* The indices of the write frames to reg among calls.
WritesTo(calls, reg) ==
    {i \in DOMAIN calls : IsWriteFrame(calls[i]) /\ calls[i].data[3] = reg}

\* The addresses selected for the retrievals among calls, in order.
RECURSIVE ReadAddresses(_)
ReadAddresses(calls) ==
    IF calls = <<>> THEN <<>>
    ELSE IF Len(calls) >= 2 /\ IsGet(calls[2])
    THEN <<calls[1].data[3]>> \o ReadAddresses(SubSeq(calls, 3, Len(calls)))
    ELSE ReadAddresses(Tail(calls))

\* C1: a run that opens a device whose register 0 does not read back "AIOC"
\* exits at once; its only transport calls are the select of register 0 and
\* the retrieval: no write frame, command frame or raw-pin report is sent.
C1_MagicGate ==
    (Len(log) >= 2 /\ SubSeq(log[2].data, 4, 7) # <<65, 73, 79, 67>>) =>
        /\ status = "exit"
        /\ Len(log) = 2
        /\ log[1] = [op |-> "send_feature_report",
                     data |-> <<0, 0, 0, 0, 0, 0, 0>>]
        /\ IsGet(log[2])

C1_Witness ==
    /\ status = "exit"
    /\ err = "Unexpected magic"
    /\ Len(log) = 2
    /\ SubSeq(log[2].data, 4, 7) = <<65, 73, 79, 0>>

\* The registers a completed block reads back, in order.
BlockReads(block) ==
    CASE block = "dump" ->
            <<AIOC_IOMUX0, AIOC_IOMUX1, CM108_IOMUX0, CM108_IOMUX1,
              CM108_IOMUX2, CM108_IOMUX3>> \o Register
      [] block \in {"swap_ptt", "auto_ptt1", "ptt"} ->
            <<AIOC_IOMUX0, AIOC_IOMUX1>>
      [] block \in {"vol", "enable_hwcos", "enable_vcos"} ->
            <<CM108_IOMUX0, CM108_IOMUX1>>
      [] block = "set_usb" -> <<USBID>>
      [] block = "vptt_lvlctrl" -> <<VPTT_LVLCTRL>>
      [] block = "vptt_timctrl" -> <<VPTT_TIMCTRL>>
      [] block = "vcos_lvlctrl" -> <<VCOS_LVLCTRL>>
      [] block = "vcos_timctrl" -> <<VCOS_TIMCTRL>>
      [] block = "foxhunt_get_settings" -> <<FOXHUNT_CTRL>>
      [] block = "foxhunt_get_message" -> MSG_REGISTERS
      [] block = "foxhunt_ctrl" -> <<FOXHUNT_CTRL, FOXHUNT_CTRL>>
      [] block = "audio_get_settings" -> <<AUDIO_RX, AUDIO_TX>>
      [] block = "audio_rx_gain" -> <<AUDIO_RX>>
      [] block = "audio_tx_boost" -> <<AUDIO_TX>>
      [] OTHER -> <<>>

\* C2: every retrieval of a feature report is immediately preceded by the
\* select frame [0][NONE][address][0] of the register being read, and the
\* device, which keeps one current address, answers from that register: a
\* completed block has read the registers it asked for, and the last
\* retrieval carries what the register holds.
C2_ReadAtomicity ==
    /\ \A i \in DOMAIN log :
          IsGet(log[i]) =>
              /\ i > 1
              /\ IsSelectFrame(log[i - 1])
              /\ log[i].data[3] = log[i - 1].data[3]
    /\ (status = "running" /\ pc > 0) =>
          ReadAddresses(BlockCalls) = BlockReads(inp.block)
    /\ (log # <<>> /\ IsGet(log[Len(log)])) =>
          SubSeq(log[Len(log)].data, 4, 7)
              = PackL(devReg[log[Len(log) - 1].data[3]])

\* A block that reads, writes and reads again has completed.
C2_Witness ==
    /\ status = "running"
    /\ pc = Idx("foxhunt_ctrl")
    /\ Len(BlockCalls) = 5
    /\ IsGet(BlockCalls[2])
    /\ IsWriteFrame(BlockCalls[3])
    /\ IsGet(BlockCalls[5])

Finished == status \in {"returned", "raised"}

\* C3: for every address 0..255 and every 32-bit value the register write
\* sends exactly seven bytes: 0, WRITESTROBE, the address and the four bytes
\* of the value, least significant first; 0x24 with 0x1002 gives
\* [0, 1, 0x24, 2, 0x10, 0, 0].
C3_WriteFrame ==
    (Finished /\ call[1] = "write_feat_report" /\ call[3] \subseteq 0..31) =>
        /\ status = "returned"
        /\ Len(log) = 1
        /\ log[1].op = "send_feature_report"
        /\ Len(log[1].data) = 7
        /\ log[1].data[1] = 0
        /\ log[1].data[2] = 1
        /\ log[1].data[3] = call[2]
        /\ \A k \in 0..3 :
              /\ log[1].data[4 + k] \in 0..255
              /\ ByteBits[log[1].data[4 + k]]
                   = {b \in 0..7 : (8 * k + b) \in call[3]}
        /\ (call[2] = 36 /\ call[3] = {1, 12}) =>
              log[1].data = <<0, 1, 36, 2, 16, 0, 0>>

C3_Witness ==
    /\ status = "returned"
    /\ call = <<"write_feat_report", AIOC_IOMUX0, {1, 12}>>
    /\ log[1].data = <<0, 1, 36, 2, 16, 0, 0>>

\* C4 as stated: for every pin 1..8, asserted or not, the raw-pin write sends
\* [0][0][data][mask][0] with exactly bit pin-1 set in both data and mask.
C4_RawPinBothBits ==
    (Finished /\ call[1] = "set_ptt_state_raw" /\ call[2] \in 1..8) =>
        /\ status = "returned"
        /\ Len(log) = 1
        /\ log[1].op = "write"
        /\ Len(log[1].data) = 5
        /\ log[1].data[1] = 0 /\ log[1].data[2] = 0 /\ log[1].data[5] = 0
        /\ ByteBits[log[1].data[3]] = {call[2] - 1}
        /\ ByteBits[log[1].data[4]] = {call[2] - 1}

\* C4 as amended: for every pin 1..8 the raw-pin write sends the five bytes
\* [0][0][data][mask][0]; the mask has exactly bit pin-1 set; the data byte
\* has exactly bit pin-1 set when asserted and is 0 when not asserted
\* (pin 3: [0,0,4,4,0] asserted, [0,0,0,4,0] not asserted).
C4_RawPinFrame ==
    (Finished /\ call[1] = "set_ptt_state_raw" /\ call[2] \in 1..8) =>
        /\ status = "returned"
        /\ Len(log) = 1
        /\ log[1].op = "write"
        /\ Len(log[1].data) = 5
        /\ log[1].data[1] = 0 /\ log[1].data[2] = 0 /\ log[1].data[5] = 0
        /\ ByteBits[log[1].data[3]] = (IF call[3] THEN {call[2] - 1} ELSE {})
        /\ ByteBits[log[1].data[4]] = {call[2] - 1}
        /\ (call[2] = 3 /\ call[3]) => log[1].data = <<0, 0, 4, 4, 0>>

C4_Witness ==
    /\ status = "returned"
    /\ call = <<"set_ptt_state_raw", 3, FALSE>>
    /\ log[1].data = <<0, 0, 0, 4, 0>>

NameSet(enum) == {enum[i].name : i \in DOMAIN enum}

\* The text has, between separators, something that is no member's name.
HasUnknownName(enum, text) ==
    \E i \in DOMAIN Split(text) :
        Split(text)[i] \notin {<<n>> : n \in NameSet(enum)}

\* The options of the two blocks that take flag strings.
SourceBlocks ==
    {[block |-> "ptt", enum |-> PTTSource,
      reg |-> <<AIOC_IOMUX0, AIOC_IOMUX1>>],
     [block |-> "vol", enum |-> CM108ButtonSource,
      reg |-> <<CM108_IOMUX0, CM108_IOMUX1>>]}

SourceArg(k) == IF k = 1 THEN inp.a1 ELSE inp.a2

\* C5: when the string given for --ptt1, --ptt2, --vol-up or --vol-dn has,
\* between separators, a name that is not in the register's enumeration, the
\* operation fails with an error and sends no write frame for that register.
C5_UnknownNameFails ==
    \A b \in SourceBlocks : \A k \in 1..2 :
        (pc = Idx(b.block) /\ SourceArg(k).given
         /\ HasUnknownName(b.enum, SourceArg(k).text)) =>
            /\ status = "error"
            /\ WritesTo(BlockCalls, b.reg[k]) = {}

\* What main() does hold to: for a non-empty string with a name that is not
\* in the enumeration the run fails with KeyError, no write frame is sent for
\* that option's register and no transport call follows the failure (the
\* only call of the block can be the write of the other, valid option
\* handled before it).  An empty string is skipped like an option that was
\* not given: no error and no write frame for its register.
NonEmptyUnknownNameRejected ==
    \A b \in SourceBlocks : \A k \in 1..2 :
        pc = Idx(b.block) =>
            /\ (Truthy(SourceArg(k))
                /\ HasUnknownName(b.enum, SourceArg(k).text)) =>
                  /\ status = "error"
                  /\ err = "KeyError"
                  /\ WritesTo(BlockCalls, b.reg[k]) = {}
                  /\ Len(BlockCalls) <= 1
                  /\ \A i \in DOMAIN BlockCalls :
                        IsWriteFrame(BlockCalls[i])
                        /\ BlockCalls[i].data[3] = b.reg[3 - k]
            /\ (SourceArg(k).given /\ SourceArg(k).text = <<>>) =>
                  /\ WritesTo(BlockCalls, b.reg[k]) = {}
                  /\ (~Truthy(SourceArg(3 - k))
                      \/ ~HasUnknownName(b.enum, SourceArg(3 - k).text))
                        => status \in {"running", "done"}

\* --ptt1 VPTT --ptt2 BOGUS: PTT1 is written, then the run fails.
Ptt2UnknownAfterPtt1 ==
    /\ pc = Idx("ptt")
    /\ inp.a1 = Given(<<"VPTT">>)
    /\ inp.a2 = Given(<<"BOGUS">>)
    /\ status = "error"
    /\ err = "KeyError"
    /\ Len(BlockCalls) = 1
    /\ BlockCalls[1].data = <<0, 1, 36, 0, 16, 0, 0>>

ParsedEnum ==
    IF call[1] = "parse_ptt_source" THEN PTTSource ELSE CM108ButtonSource

\* The bitwise OR of the values of the members named in the text.
NamedBits(enum, text) ==
    UNION {ByName(enum, Split(text)[i][1]).value : i \in DOMAIN Split(text)}

\* C6: for every '|'-separated sequence of names of the enumeration, repeats
\* and NONE included, the parse returns the bitwise OR of the named values, so
\* no bit of the result is missing from all the named constants.
C6_ParseIsOr ==
    (Finished /\ call[1] \in {"parse_ptt_source", "parse_btn_source"}
     /\ ~HasUnknownName(ParsedEnum, call[2])) =>
        /\ status = "returned"
        /\ result = NamedBits(ParsedEnum, call[2])

\* C7: the display form of a raw value is the member's name when raw is a
\* member's value (NONE for 0); otherwise the '|'-joined names of the nonzero
\* members contained in raw, in enumeration order, also when raw has further
\* bits of no member; otherwise the hexadecimal form of raw.
C7_DisplayOrder ==
    (Finished /\ call[1] = "str") =>
        result = (IF HasValue(EnumOf(call[2]), call[3])
                  THEN <<ByValue(EnumOf(call[2]), call[3]).name>>
                  ELSE IF Contained(EnumOf(call[2]), call[3]) # <<>>
                  THEN Join(Contained(EnumOf(call[2]), call[3]))
                  ELSE Hex(call[3]))

\* The foxhunt field the block packs: the one given, or the current one.
FoxhuntField(arg, current) == IF arg.given THEN arg.value ELSE current

\* C8: a field wider than its window is truncated without an error and
\* without touching the other fields: --set-usb writes
\* ((pid mod 2^16) << 16) | (vid mod 2^16) to USBID, and the foxhunt options
\* write ((volume mod 2^16) << 16) | ((wpm mod 2^8) << 8) | (interval mod 2^8)
\* to FOXHUNT_CTRL.
C8_PackedTruncation ==
    /\ pc = Idx("set_usb") =>
          /\ status \in {"running", "done"}
          /\ Len(BlockCalls) >= 1
          /\ BlockCalls[1].op = "send_feature_report"
          /\ BlockCalls[1].data
               = WriteData(USBID, Or(Shl(LowBits(inp.pid, 16), 16),
                                     LowBits(inp.vid, 16)))
    /\ pc = Idx("foxhunt_ctrl") =>
          /\ status \in {"running", "done"}
          /\ Len(BlockCalls) >= 3
          /\ BlockCalls[3].op = "send_feature_report"
          /\ LET current == UnpackL(SubSeq(BlockCalls[2].data, 4, 7))
                 volume == FoxhuntField(inp.volume, FoxhuntVolume(current))
                 wpm == FoxhuntField(inp.wpm, FoxhuntWpm(current))
                 interval == FoxhuntField(inp.interval,
                                          FoxhuntInterval(current))
             IN  BlockCalls[3].data
                   = WriteData(FOXHUNT_CTRL,
                               Or(Or(Shl(LowBits(volume, 16), 16),
                                     Shl(LowBits(wpm, 8), 8)),
                                  LowBits(interval, 8)))

Min(a, b) == IF a < b THEN a ELSE b

\* C9: a text of characters 1..127 written with --foxhunt-message goes to
\* FOXHUNT_MSG0..3 in address order as four little-endian words of its first
\* 16 bytes, zero-padded, and --foxhunt-get-message then returns the first 16
\* characters of the text: a text of at most 16 characters comes back
\* unchanged.
C9_MessageRoundTrip ==
    (status = "returned" /\ call[1] = "foxhunt_message"
     /\ \A i \in DOMAIN call[2] : call[2][i] \in 1..127) =>
        /\ result = SubSeq(call[2], 1, Min(16, Len(call[2])))
        /\ \A k \in 1..4 :
              /\ IsWriteFrame(log[k])
              /\ log[k].data[3] = MSG_REGISTERS[k]
              /\ \A j \in 1..4 :
                    log[k].data[3 + j]
                      = (IF 4 * (k - 1) + j <= Len(call[2])
                         THEN call[2][4 * (k - 1) + j] ELSE 0)

\* Seventeen characters come back as the first sixteen.
C9_Witness ==
    /\ status = "returned"
    /\ call = <<"foxhunt_message", Rep(88, 17)>>
    /\ result = Rep(88, 16)
    /\ devReg[FOXHUNT_MSG3] = {3, 4, 6, 11, 12, 14, 19, 20, 22, 27, 28, 30}

\* C10: a run with --swap-ptt, with or without --dump, writes to AIOC_IOMUX0
\* what AIOC_IOMUX1 held and to AIOC_IOMUX1 what AIOC_IOMUX0 held, and the
\* swap step completes without a runtime error.
C10_SwapCompletes ==
    pc = Idx("swap_ptt") =>
        /\ status \in {"running", "done"}
        /\ Len(BlockCalls) >= 2
        /\ \E p1, p2 \in {{2}, {12}, {0, 31}, {}} :
              /\ \E i \in 1..mark :
                    /\ IsGet(log[i])
                    /\ log[i].data = <<0, 0, AIOC_IOMUX0>> \o PackL(p1)
              /\ \E i \in 1..mark :
                    /\ IsGet(log[i])
                    /\ log[i].data = <<0, 0, AIOC_IOMUX1>> \o PackL(p2)
              /\ BlockCalls[1].data = WriteData(AIOC_IOMUX0, p2)
              /\ BlockCalls[2].data = WriteData(AIOC_IOMUX1, p1)

\* The places in the log of the feature frames whose command byte is c.
CommandAt(c) == {i \in DOMAIN log : IsFeature(log[i]) /\ log[i].data[2] = c}

\* C11: in every run the DEFAULTS command frame, if requested, is sent before
\* every register write frame; the STORE command frame, if requested, after
\* every register write frame; the REBOOT command frame, if requested, is the
\* last transport call, after STORE and after any raw-pin write.  Each command
\* frame is [0][cmd][0][0,0,0,0] and at most one of each is sent.
C11_CommandOrdering ==
    /\ \A i \in DOMAIN log :
          IsFeature(log[i]) =>
              log[i].data[2] \in {CMD_NONE, WRITESTROBE, DEFAULTS, STORE, REBOOT}
    /\ \A c \in {DEFAULTS, STORE, REBOOT} :
          /\ Cardinality(CommandAt(c)) <= 1
          /\ \A i \in CommandAt(c) : log[i].data = <<0, c, 0, 0, 0, 0, 0>>
    /\ \A i \in CommandAt(DEFAULTS) : \A j \in DOMAIN log :
          IsWriteFrame(log[j]) => i < j
    /\ \A i \in CommandAt(STORE) : \A j \in DOMAIN log :
          IsWriteFrame(log[j]) => j < i
    /\ \A i \in CommandAt(REBOOT) :
          /\ i = Len(log)
          /\ \A j \in DOMAIN log :
                (j \in CommandAt(STORE) \/ log[j].op = "write") => j < i
    /\ pc = Idx("defaults") => CommandAt(DEFAULTS) = {3}
    /\ pc = Idx("store") => CommandAt(STORE) = {Len(log)}
    /\ pc = Idx("reboot") => CommandAt(REBOOT) = {Len(log)}

\* --store --reboot: STORE, then REBOOT as the last call of the run.
C11_Witness ==
    /\ status = "done"
    /\ pc = Idx("reboot")
    /\ Len(log) = 4
    /\ log[3].data = <<0, 128, 0, 0, 0, 0, 0>>
    /\ log[4].data = <<0, 32, 0, 0, 0, 0, 0>>

\* C12: for every value read from AUDIO_RX and AUDIO_TX, --audio-get-settings
\* completes and reports the gain name (1x, 2x, 4x, 8x, 16x for 0..4) and the
\* boost name (off for 0, on for 0x100), or "unknown (<hex>)" for a value that
\* is not enumerated; the run is not aborted, so the later options are still
\* handled.
C12_AudioDisplayCompletes ==
    pc = Idx("audio_get_settings") =>
        /\ status \in {"running", "done"}
        /\ rx_gain_name(devReg[AUDIO_RX])
             = (CASE devReg[AUDIO_RX] = {} -> <<"1x">>
                  [] devReg[AUDIO_RX] = {0} -> <<"2x">>
                  [] devReg[AUDIO_RX] = {1} -> <<"4x">>
                  [] devReg[AUDIO_RX] = {0, 1} -> <<"8x">>
                  [] devReg[AUDIO_RX] = {2} -> <<"16x">>
                  [] OTHER -> Unknown(devReg[AUDIO_RX]))
        /\ tx_boost_name(devReg[AUDIO_TX])
             = (CASE devReg[AUDIO_TX] = {} -> <<"off">>
                  [] devReg[AUDIO_TX] = {8} -> <<"on">>
                  [] OTHER -> Unknown(devReg[AUDIO_TX]))

====
